---- MODULE Spec2Model ----
(***************************************************************************)
(* Model of train() in helpers.py: the equilibrium-propagation training    *)
(* loop over an external network (spice_net), with its loss / weight /     *)
(* update history buffers.                                                 *)
(*                                                                         *)
(* Python arrays and lists are functions over 0..n-1 (0-based, as in the   *)
(* code).  Real numbers are integers; eta is the fraction eta/EtaDen.      *)
(***************************************************************************)
EXTENDS Integers, Sequences, FiniteSets

VARIABLES
    epochs, gamma, eta, log_steps, shuffle,  \* arguments of train
    xs, ys,                 \* the sample arrays (rebound by the shuffle, l.81-82)
    w,                      \* the network's edge values (E.get_val())
    pc, i, j,               \* position in train and its loop indices
    e1, e2,                 \* endpoint index lists (l.72-76)
    free, nudges, clamped, trainable_updates,   \* locals of the sample loop
    loss, weights, updates, \* the history buffers (l.62-64)
    printed,                \* the progress reports emitted (l.108)
    ret,                    \* what train returned (l.110)
    xs0, ys0, w0, log_steps0,   \* history: the caller's data and checkpoint argument,
                            \* the edge values at the call
    ord,                    \* history: the original index of the sample now at each position
    calls,                  \* history: the calls made on net, in order
    lossWrites, updWrites, wgtWrites   \* history: stores made into each buffer cell

vars == <<epochs, gamma, eta, log_steps, shuffle, xs, ys, w, pc, i, j, e1, e2,
          free, nudges, clamped, trainable_updates, loss, weights, updates,
          printed, ret, xs0, ys0, w0, log_steps0, ord, calls, lossWrites, updWrites, wgtWrites>>

-----------------------------------------------------------------------------
(* Bounds of the model *)
MaxEpochs == 2
MaxSamples == 2
MaxVal == 2
MaxGamma == 1
EtaDen == 2
MaxLog == 2
MaxEdges == 2
RuleMaxVal == 1

-----------------------------------------------------------------------------
(* Python values *)
\* log_steps=None, and a list given for it
None == [given |-> FALSE]
Given(list) == [given |-> TRUE, list |-> list]
\* output_clamp=None, and a clamp value given for it
NoClamp == {}
Clamp(v) == {v}
\* a cell of np.empty() that has not been stored into: its content is unspecified
Uninit == [init |-> FALSE]
Stored(v) == [init |-> TRUE, val |-> v]

Range0(n) == 0 .. (n - 1)
Len0(a) == Cardinality(DOMAIN a)
EmptyArr == [k \in {} |-> 0]

RECURSIVE SumTo(_, _)
SumTo(f, n) == IF n = 0 THEN 0 ELSE f[n - 1] + SumTo(f, n - 1)

\* k in list
Contains(list, v) == \E k \in DOMAIN list : list[k] = v
\* list.index(v): the first position holding v
ListIndex(list, v) ==
    CHOOSE k \in DOMAIN list : list[k] = v /\ \A m \in DOMAIN list : m < k => list[m] # v

-----------------------------------------------------------------------------
(* The network: a two-edge divider.  Node 0 is the reference, the input is  *)
(* forced across (1,0), the output is read across (2,0); edge 0 joins nodes *)
(* 1 and 2, edge 1 joins nodes 2 and 0.                                     *)
NNodes == 3
NetEdges == [k \in Range0(2) |-> IF k = 0 THEN <<1, 2>> ELSE <<2, 0>>]
InitialEdgeValue == 4
InitialEdgeValues == [k \in DOMAIN NetEdges |-> InitialEdgeValue]

\* the relaxation has an equilibrium only while every edge value is positive
Converges(wt) == \A k \in DOMAIN wt : wt[k] > 0

\* whether a call that solves raises: it always may, and it does when there is no
\* equilibrium
CallOutcomes(wt) == {raises \in BOOLEAN : ~Converges(wt) => raises}

\* net.solve(x, output_clamp): the equilibrium node potentials
Solve(x, wt, clamp) ==
    [a \in Range0(NNodes) |->
        IF a = 0 THEN 0
        ELSE IF a = 1 THEN x
        ELSE IF clamp = NoClamp THEN (x * wt[0]) \div (wt[0] + wt[1])
        ELSE CHOOSE v \in clamp : TRUE]

\* net.predict(x): free-phase solve, read the output node pair
Predict(x, wt) == Solve(x, wt, NoClamp)[2] - Solve(x, wt, NoClamp)[0]
PredictBatch(xa, wt) == [k \in DOMAIN xa |-> Predict(xa[k], wt)]

\* net.update(deltas): add the delta to every edge
NetUpdate(wt, deltas) == [k \in DOMAIN wt |-> wt[k] + deltas[k]]

-----------------------------------------------------------------------------
(* Pure parts of train *)

\* l.54, l.59
n_nodes == NNodes
n_edges == Len0(NetEdges)

\* l.56-57
DefaultLogSteps(ls, ep) == IF ~ls.given THEN [k \in Range0(ep) |-> k] ELSE ls.list

\* l.62: np.zeros(epochs+1)
AllocLoss(ep) == [k \in Range0(ep + 1) |-> 0]
\* (variant: the row of the initial edge values is not allocated)
AllocWeights_NoInitialRow(ls, n, ne) ==
    [k \in Range0(Len0(ls)) |-> [s \in Range0(n) |-> [e \in Range0(ne) |-> Uninit]]]
\* l.63: np.empty((len(log_steps)+1, xs.shape[0], n_edges))
AllocWeights(ls, n, ne) ==
    [k \in Range0(Len0(ls) + 1) |-> [s \in Range0(n) |-> [e \in Range0(ne) |-> Uninit]]]
\* l.64: np.empty((len(log_steps), xs.shape[0], n_edges))
AllocUpdates(ls, n, ne) ==
    [k \in Range0(Len0(ls)) |-> [s \in Range0(n) |-> [e \in Range0(ne) |-> Uninit]]]

\* storing a vector into one row of a buffer
StoredRow(v) == [e \in DOMAIN v |-> Stored(v[e])]

\* l.68, l.106: np.mean((ys - pred)**2)
MSE(ya, pred) ==
    SumTo([k \in DOMAIN ya |-> (ya[k] - pred[k]) * (ya[k] - pred[k])], Len0(ya)) \div Len0(ya)

\* l.70: np.tile([E.get_val() for E in net.edges], (n, 1))
TileRows(row, n) == [s \in Range0(n) |-> StoredRow(row)]

\* l.72-76
EndpointsA(edges) == [k \in DOMAIN edges |-> edges[k][1]]
EndpointsB(edges) == [k \in DOMAIN edges |-> edges[k][2]]

\* l.80: np.random.permutation(n)
Perms(n) == {p \in [Range0(n) -> Range0(n)] : \A a, b \in Range0(n) : p[a] = p[b] => a = b}
\* arr[perm]
Take(arr, perm) == [k \in DOMAIN perm |-> arr[perm[k]]]
\* (variant: only xs is reordered)
Shuffle_XsOnly(xa, ya, perm) == <<Take(xa, perm), ya>>
\* l.81-82
Shuffle(xa, ya, perm) == <<Take(xa, perm), Take(ya, perm)>>

\* (variant: the two weights of the blend are exchanged)
NudgeTarget_Swapped(et, y, pred) == ((EtaDen - et) * y + et * pred) \div EtaDen
\* l.85: eta * y + (1-eta) * net.predict(x)
NudgeTarget(et, y, pred) == (et * y + (EtaDen - et) * pred) \div EtaDen

\* l.88-89: np.tile(v, [n_nodes, 1]): n_nodes rows, each a copy of v
Tile(v, n) == [r \in Range0(n) |-> v]
Transpose(m) == [a \in DOMAIN m |-> [b \in DOMAIN m |-> m[b][a]]]
\* (variant: the transpose is missing)
PairDiff_NoTranspose(v) ==
    LET rep == Tile(v, n_nodes)
    IN  [a \in Range0(n_nodes) |-> [b \in Range0(n_nodes) |-> rep[a][b] - rep[a][b]]]
\* l.88-92: free_rep - free_rep.T
PairDiff(v) ==
    LET rep == Tile(v, n_nodes)
        repT == Transpose(rep)
    IN  [a \in Range0(n_nodes) |-> [b \in Range0(n_nodes) |-> rep[a][b] - repT[a][b]]]
\* (variant: the factor gamma is missing)
DenseUpdate_NoGamma(g, fr, cl) ==
    LET delta_free == PairDiff(fr)
        delta_clamped == PairDiff(cl)
    IN  [a \in Range0(n_nodes) |-> [b \in Range0(n_nodes) |->
            0 - (delta_clamped[a][b] * delta_clamped[a][b]
                 - delta_free[a][b] * delta_free[a][b])]]
\* l.94: -gamma * (delta_clamped**2 - delta_free**2)
DenseUpdate(g, fr, cl) ==
    LET delta_free == PairDiff(fr)
        delta_clamped == PairDiff(cl)
    IN  [a \in Range0(n_nodes) |-> [b \in Range0(n_nodes) |->
            (0 - g) * (delta_clamped[a][b] * delta_clamped[a][b]
                       - delta_free[a][b] * delta_free[a][b])]]
\* l.96: update[e1, e2]
TrainableUpdates(g, fr, cl, ea, eb) ==
    LET update == DenseUpdate(g, fr, cl)
    IN  [k \in DOMAIN ea |-> update[ea[k]][eb[k]]]

\* (variant: the update is made right after the nudge, without the clamped solve)
SampleStep_SkipClamped(cur, jj, n) ==
    CASE cur = "free" -> "nudge"
      [] cur = "nudge" -> "update"
      [] cur = "clamped" -> "update"
      [] cur = "update" -> IF jj + 1 < n THEN "free" ELSE "loss"
\* l.83-98: the order of the statements of the sample loop
SampleStep(cur, jj, n) ==
    CASE cur = "free" -> "nudge"
      [] cur = "nudge" -> "clamped"
      [] cur = "clamped" -> "update"
      [] cur = "update" -> IF jj + 1 < n THEN "free" ELSE "loss"

\* (variant: the slot is not shifted past the initial loss)
LossSlot_Unshifted(ii) == ii
\* l.106: the slot of the loss curve epoch ii stores into
LossSlot(ii) == ii + 1

\* (variant: the failure is swallowed and train carries on)
OnCallFailure_Swallow(next) == next
\* l.67, l.84-86, l.105: train has no try/except, a raising call ends it
OnCallFailure(next) == "aborted"

-----------------------------------------------------------------------------
NSamples == Len0(xs)
\* a local that is not bound yet
NoVec == [a \in Range0(NNodes) |-> 0]
NoDelta == [k \in DOMAIN NetEdges |-> 0]

\* one call on net: what was called, whether it returned, for which sample of which
\* epoch, the edge values it ran on (for update: the values it left)
Call(op, ok, wt, delta) ==
    [op |-> op, ok |-> ok, i |-> i, j |-> j, w |-> wt,
     x |-> xs[j], y |-> ys[j], orig |-> ord[j], delta |-> delta]

\* checkpoint arguments: None, or a list of at most MaxLog epoch numbers of 0..ep
\* (ep itself is outside [0, ep); lists may be unsorted and may repeat a number)
LogChoices(ep) ==
    {None} \cup {Given(list) : list \in UNION {[Range0(len) -> 0 .. ep] : len \in 0 .. MaxLog}}
\* None, or a list of one epoch number
ShortLogChoices(ep) ==
    {None} \cup {Given([k \in Range0(1) |-> e]) : e \in 0 .. ep}

\* a data set of n samples with pairwise different inputs and targets (while n <= MaxVal)
RampX(n) == [k \in Range0(n) |-> 1 + (k % MaxVal)]
RampY(n) == [k \in Range0(n) |-> MaxVal - (k % MaxVal)]

Locals ==
    /\ i = 0 /\ j = 0
    /\ e1 = EmptyArr /\ e2 = EmptyArr
    /\ free = NoVec /\ clamped = NoVec /\ trainable_updates = NoDelta /\ nudges = 0
    /\ loss = EmptyArr /\ weights = EmptyArr /\ updates = EmptyArr
    /\ printed = <<>> /\ ret = <<>>
    /\ calls = <<>>
    /\ lossWrites = EmptyArr /\ updWrites = EmptyArr /\ wgtWrites = EmptyArr

\* The call train(net, xs, ys, epochs, gamma, eta, log_steps=..., shuffle=...), with
\* every epochs, gamma, eta and sample count, and one of:
\*   the ramp data, every checkpoint argument, no shuffling;
\*   the ramp data, shuffling, None or a one-element checkpoint list;
\*   every target vector for the ramp inputs, or every input vector for the ramp
\*   targets, with the default checkpoints and no shuffling.
Init ==
    /\ epochs \in 0 .. MaxEpochs
    /\ gamma \in 0 .. MaxGamma
    /\ eta \in 0 .. EtaDen
    /\ \E n \in 1 .. MaxSamples :
          /\ \/ /\ xs = RampX(n) /\ ys = RampY(n)
                /\ log_steps \in LogChoices(epochs)
                /\ shuffle = FALSE
             \/ /\ xs = RampX(n) /\ ys = RampY(n)
                /\ log_steps \in ShortLogChoices(epochs)
                /\ shuffle = TRUE
             \/ /\ \/ xs = RampX(n) /\ ys \in [Range0(n) -> 1 .. MaxVal]
                   \/ xs \in [Range0(n) -> 1 .. MaxVal] /\ ys = RampY(n)
                /\ log_steps = None
                /\ shuffle = FALSE
          /\ ord = [k \in Range0(n) |-> k]
    /\ xs0 = xs /\ ys0 = ys /\ log_steps0 = log_steps
    /\ w = InitialEdgeValues /\ w0 = w
    /\ pc = "start"
    /\ Locals

\* l.54-64
Allocate ==
    /\ pc = "start"
    /\ log_steps' = DefaultLogSteps(log_steps, epochs)
    /\ loss' = AllocLoss(epochs)
    /\ weights' = AllocWeights(log_steps', NSamples, n_edges)
    /\ updates' = AllocUpdates(log_steps', NSamples, n_edges)
    /\ lossWrites' = [k \in DOMAIN loss' |-> 0]
    /\ wgtWrites' = [k \in DOMAIN weights' |-> [s \in Range0(NSamples) |-> 0]]
    /\ updWrites' = [k \in DOMAIN updates' |-> [s \in Range0(NSamples) |-> 0]]
    /\ pc' = "init_loss"
    /\ UNCHANGED <<epochs, gamma, eta, shuffle, xs, ys, w, i, j, e1, e2, free, nudges,
                   clamped, trainable_updates, printed, ret, xs0, ys0, w0, log_steps0,
                   ord, calls>>

\* l.66-76
InitialLoss ==
    /\ pc = "init_loss"
    /\ \E raises \in CallOutcomes(w) : LET ok == ~raises IN
        /\ calls' = Append(calls, Call("predict_batch", ok, w, NoDelta))
        /\ IF ok
           THEN /\ loss' = [loss EXCEPT ![0] = MSE(ys, PredictBatch(xs, w))]
                /\ lossWrites' = [lossWrites EXCEPT ![0] = @ + 1]
                /\ weights' = [weights EXCEPT ![0] = TileRows(w, NSamples)]
                /\ wgtWrites' = [wgtWrites EXCEPT ![0] = [s \in Range0(NSamples) |-> @[s] + 1]]
                /\ e1' = EndpointsA(NetEdges)
                /\ e2' = EndpointsB(NetEdges)
                /\ pc' = "epoch"
           ELSE /\ pc' = OnCallFailure("epoch")
                /\ UNCHANGED <<loss, lossWrites, weights, wgtWrites, e1, e2>>
    /\ i' = 0
    /\ UNCHANGED <<epochs, gamma, eta, log_steps, shuffle, xs, ys, w, j, free, nudges,
                   clamped, trainable_updates, updates, printed, ret, xs0, ys0, w0,
                   log_steps0, ord, updWrites>>

\* l.78-83
EpochStart ==
    /\ pc = "epoch"
    /\ i < epochs
    /\ IF shuffle
       THEN \E perm \in Perms(NSamples) :
               /\ xs' = Shuffle(xs, ys, perm)[1]
               /\ ys' = Shuffle(xs, ys, perm)[2]
               /\ ord' = Take(ord, perm)
       ELSE UNCHANGED <<xs, ys, ord>>
    /\ j' = 0
    /\ pc' = "free"
    /\ UNCHANGED <<epochs, gamma, eta, log_steps, shuffle, w, i, e1, e2, free, nudges,
                   clamped, trainable_updates, loss, weights, updates, printed, ret,
                   xs0, ys0, w0, log_steps0, calls, lossWrites, updWrites, wgtWrites>>

\* l.84
FreeSolve ==
    /\ pc = "free"
    /\ \E raises \in CallOutcomes(w) : LET ok == ~raises IN
        /\ calls' = Append(calls, Call("solve_free", ok, w, NoDelta))
        /\ IF ok
           THEN free' = Solve(xs[j], w, NoClamp) /\ pc' = SampleStep("free", j, NSamples)
           ELSE free' = free /\ pc' = OnCallFailure(SampleStep("free", j, NSamples))
    /\ UNCHANGED <<epochs, gamma, eta, log_steps, shuffle, xs, ys, w, i, j, e1, e2,
                   nudges, clamped, trainable_updates, loss, weights, updates, printed,
                   ret, xs0, ys0, w0, log_steps0, ord, lossWrites, updWrites, wgtWrites>>

\* l.85
Nudge ==
    /\ pc = "nudge"
    /\ \E raises \in CallOutcomes(w) : LET ok == ~raises IN
        /\ calls' = Append(calls, Call("predict", ok, w, NoDelta))
        /\ IF ok
           THEN /\ nudges' = NudgeTarget(eta, ys[j], Predict(xs[j], w))
                /\ pc' = SampleStep("nudge", j, NSamples)
           ELSE /\ nudges' = nudges
                /\ pc' = OnCallFailure(SampleStep("nudge", j, NSamples))
    /\ UNCHANGED <<epochs, gamma, eta, log_steps, shuffle, xs, ys, w, i, j, e1, e2,
                   free, clamped, trainable_updates, loss, weights, updates, printed,
                   ret, xs0, ys0, w0, log_steps0, ord, lossWrites, updWrites, wgtWrites>>

\* l.86
ClampedSolve ==
    /\ pc = "clamped"
    /\ \E raises \in CallOutcomes(w) : LET ok == ~raises IN
        /\ calls' = Append(calls, Call("solve_clamped", ok, w, NoDelta))
        /\ IF ok
           THEN /\ clamped' = Solve(xs[j], w, Clamp(nudges))
                /\ pc' = SampleStep("clamped", j, NSamples)
           ELSE /\ clamped' = clamped
                /\ pc' = OnCallFailure(SampleStep("clamped", j, NSamples))
    /\ UNCHANGED <<epochs, gamma, eta, log_steps, shuffle, xs, ys, w, i, j, e1, e2,
                   free, nudges, trainable_updates, loss, weights, updates, printed,
                   ret, xs0, ys0, w0, log_steps0, ord, lossWrites, updWrites, wgtWrites>>

\* l.88-103, and the step of the for loop of l.83
Update ==
    /\ pc = "update"
    /\ trainable_updates' = TrainableUpdates(gamma, free, clamped, e1, e2)
    /\ w' = NetUpdate(w, trainable_updates')
    /\ calls' = Append(calls, Call("update", TRUE, w', trainable_updates'))
    /\ IF Contains(log_steps, i)
       THEN LET k == ListIndex(log_steps, i) IN
            /\ updates' = [updates EXCEPT ![k][j] = StoredRow(trainable_updates')]
            /\ weights' = [weights EXCEPT ![k + 1][j] = StoredRow(w')]
            /\ updWrites' = [updWrites EXCEPT ![k][j] = @ + 1]
            /\ wgtWrites' = [wgtWrites EXCEPT ![k + 1][j] = @ + 1]
       ELSE UNCHANGED <<updates, weights, updWrites, wgtWrites>>
    /\ pc' = SampleStep("update", j, NSamples)
    /\ j' = IF pc' = "free" THEN j + 1 ELSE j
    /\ UNCHANGED <<epochs, gamma, eta, log_steps, shuffle, xs, ys, i, e1, e2, free,
                   nudges, clamped, loss, printed, ret, xs0, ys0, w0, log_steps0, ord,
                   lossWrites>>

\* l.105-108
EpochLoss ==
    /\ pc = "loss"
    /\ \E raises \in CallOutcomes(w) : LET ok == ~raises IN
        /\ calls' = Append(calls, Call("predict_batch", ok, w, NoDelta))
        /\ IF ok
           THEN /\ loss' = [loss EXCEPT ![LossSlot(i)] = MSE(ys, PredictBatch(xs, w))]
                /\ lossWrites' = [lossWrites EXCEPT ![LossSlot(i)] = @ + 1]
                /\ printed' = IF Contains(log_steps, i) THEN Append(printed, i + 1) ELSE printed
                /\ i' = i + 1
                /\ pc' = "epoch"
           ELSE /\ pc' = OnCallFailure("epoch")
                /\ UNCHANGED <<loss, lossWrites, printed, i>>
    /\ UNCHANGED <<epochs, gamma, eta, log_steps, shuffle, xs, ys, w, j, e1, e2, free,
                   nudges, clamped, trainable_updates, weights, updates, ret, xs0, ys0,
                   w0, log_steps0, ord, updWrites, wgtWrites>>

\* l.110
Return ==
    /\ pc = "epoch"
    /\ i >= epochs
    /\ ret' = <<w, loss, updates, weights>>
    /\ pc' = "done"
    /\ UNCHANGED <<epochs, gamma, eta, log_steps, shuffle, xs, ys, w, i, j, e1, e2, free,
                   nudges, clamped, trainable_updates, loss, weights, updates, printed,
                   xs0, ys0, w0, log_steps0, ord, calls, lossWrites, updWrites, wgtWrites>>

Next ==
    \/ Allocate
    \/ InitialLoss
    \/ EpochStart
    \/ FreeSolve
    \/ Nudge
    \/ ClampedSolve
    \/ Update
    \/ EpochLoss
    \/ Return

Spec == Init /\ [][Next]_vars

-----------------------------------------------------------------------------
(* The update rule alone: any two equilibrium states, any endpoint lists *)

InitRule ==
    /\ pc = "rule"
    /\ gamma \in 0 .. MaxGamma
    /\ free \in [Range0(n_nodes) -> 0 .. RuleMaxVal]
    /\ clamped \in [Range0(n_nodes) -> 0 .. RuleMaxVal]
    /\ e1 = EmptyArr /\ e2 = EmptyArr
    /\ epochs = 1 /\ eta = 0 /\ log_steps = None /\ shuffle = FALSE
    /\ xs = RampX(1) /\ ys = RampY(1) /\ ord = [k \in Range0(1) |-> k]
    /\ xs0 = xs /\ ys0 = ys /\ log_steps0 = log_steps
    /\ w = InitialEdgeValues /\ w0 = w
    /\ i = 0 /\ j = 0
    /\ trainable_updates = EmptyArr /\ nudges = 0
    /\ loss = EmptyArr /\ weights = EmptyArr /\ updates = EmptyArr
    /\ printed = <<>> /\ ret = <<>>
    /\ calls = <<>>
    /\ lossWrites = EmptyArr /\ updWrites = EmptyArr /\ wgtWrites = EmptyArr

\* l.72-76 for any edge list of at most MaxEdges edges, then l.88-96
ApplyRule ==
    /\ pc = "rule"
    /\ \E len \in 1 .. MaxEdges :
          /\ e1' \in [Range0(len) -> Range0(n_nodes)]
          /\ e2' \in [Range0(len) -> Range0(n_nodes)]
    /\ trainable_updates' = TrainableUpdates(gamma, free, clamped, e1', e2')
    /\ pc' = "rule_done"
    /\ UNCHANGED <<epochs, gamma, eta, log_steps, shuffle, xs, ys, w, i, j, free,
                   nudges, clamped, loss, weights, updates, printed, ret, xs0, ys0, w0,
                   log_steps0, ord, calls, lossWrites, updWrites, wgtWrites>>

NextRule == ApplyRule

SpecRule == InitRule /\ [][NextRule]_vars

-----------------------------------------------------------------------------
(* Vocabulary of the properties *)

LastCall == calls[Len(calls)]
\* the call made k calls before the last one
PrevCall(k) == calls[Len(calls) - k]
SameSample(c, d) == c.i = d.i /\ c.j = d.j /\ c.x = d.x /\ c.orig = d.orig
UpdateCalls == {q \in 1 .. Len(calls) : calls[q].op = "update"}
\* the edge values left by the last update made so far
LeftByLastUpdate ==
    IF UpdateCalls = {} THEN w0
    ELSE calls[CHOOSE q \in UpdateCalls : \A r \in UpdateCalls : r <= q].w
IsZero(v) == \A k \in DOMAIN v : v[k] = 0
InSeq(sq, v) == \E k \in 1 .. Len(sq) : sq[k] = v
\* the delta of an edge from node a to node b, from the two potential differences
PerEdgeDelta(g, fr, cl, a, b) ==
    (0 - g) * ((cl[a] - cl[b]) * (cl[a] - cl[b]) - (fr[a] - fr[b]) * (fr[a] - fr[b]))

\* the configuration errors of the call
NonPositiveEpochs == epochs <= 0
CheckpointOutOfRange ==
    /\ log_steps0.given
    /\ \E k \in DOMAIN log_steps0.list : log_steps0.list[k] \notin Range0(epochs)
ConfigurationError == NonPositiveEpochs \/ CheckpointOutOfRange
\* the number of checkpoints of the call
NCheckpoints == IF log_steps0.given THEN Len0(log_steps0.list) ELSE epochs

-----------------------------------------------------------------------------
(* C1: a call with a configuration error (non-positive epochs, a checkpoint  *)
(* outside [0, epochs)) makes no call on the network, leaves the edge values *)
(* as they were and does not return normally.                                *)
C1_ConfigurationRejected ==
    ConfigurationError => (calls = <<>> /\ w = w0 /\ pc # "done")

(* C2: the samples are processed one after the other.  The calls of a sample *)
(* come in the order free solve, predict, clamped solve, update; the three   *)
(* solves run on the same edge values, those left by the previous update;    *)
(* when sample number s (counted over all epochs) starts, exactly s updates  *)
(* have been made.  Every state's call list extends its predecessor's by at  *)
(* most one call, so stating this of the last call states it of every call.  *)
C2_SequentialSamples ==
    calls # <<>> =>
      LET c == LastCall
          before == Cardinality(UpdateCalls \ {Len(calls)})
      IN
      /\ c.op = "solve_free" =>
            /\ before = c.i * NSamples + c.j
            /\ c.w = LeftByLastUpdate
            /\ Len(calls) > 1
            /\ PrevCall(1).op \in {"update", "predict_batch"}
            /\ PrevCall(1).op = "update" => (PrevCall(1).i = c.i /\ PrevCall(1).j + 1 = c.j)
      /\ c.op = "predict" =>
            /\ Len(calls) > 1
            /\ PrevCall(1).op = "solve_free" /\ PrevCall(1).ok
            /\ SameSample(c, PrevCall(1)) /\ c.w = PrevCall(1).w
      /\ c.op = "solve_clamped" =>
            /\ Len(calls) > 2
            /\ PrevCall(1).op = "predict" /\ PrevCall(1).ok
            /\ PrevCall(2).op = "solve_free"
            /\ SameSample(c, PrevCall(2)) /\ c.w = PrevCall(2).w
      /\ c.op = "update" =>
            /\ Len(calls) > 3
            /\ PrevCall(1).op = "solve_clamped" /\ PrevCall(1).ok
            /\ PrevCall(2).op = "predict"
            /\ PrevCall(3).op = "solve_free"
            /\ SameSample(c, PrevCall(1)) /\ SameSample(c, PrevCall(3))
            /\ PrevCall(1).w = PrevCall(3).w
            /\ c.w = NetUpdate(PrevCall(1).w, c.delta)
            /\ before = c.i * NSamples + c.j
            /\ w = c.w
C2_Witness ==
    /\ pc = "done" /\ epochs >= 2 /\ NSamples >= 2
    /\ Cardinality(UpdateCalls) = epochs * NSamples
    /\ w # w0

(* C3: with gamma = 0 the edge values are, in every state of the call, the   *)
(* ones the network had when train was called.                               *)
C3_ZeroUpdate == gamma = 0 => w = w0
C3_Witness ==
    /\ gamma = 0 /\ pc = "done" /\ epochs >= 2 /\ shuffle
    /\ free # clamped
    /\ Cardinality(UpdateCalls) = epochs * NSamples

(* C4: the delta handed to net.update has one entry per edge, in edge order, *)
(* and entry k is -gamma * ((clamped[e1[k]] - clamped[e2[k]])^2              *)
(*                          - (free[e1[k]] - free[e2[k]])^2).                *)
C4_PerEdgeDelta ==
    pc = "rule_done" =>
      /\ DOMAIN trainable_updates = DOMAIN e1
      /\ \A k \in DOMAIN e1 :
            trainable_updates[k] = PerEdgeDelta(gamma, free, clamped, e1[k], e2[k])
C4_Witness ==
    /\ pc = "rule_done" /\ gamma > 0 /\ Len0(e1) = 2
    /\ e1[0] = e2[0]                            \* an edge from a node to itself
    /\ e1[1] # e2[1]
    /\ trainable_updates[1] # 0

(* C5: the sample at each position is one of the caller's samples, x and y   *)
(* of the same original index; the positions hold every original index once; *)
(* the updates of an epoch are for pairwise different samples, all n of them *)
(* when the epoch ends; without shuffling position j holds sample j.         *)
C5_SampleOrdering ==
    /\ \A k \in DOMAIN xs : xs[k] = xs0[ord[k]] /\ ys[k] = ys0[ord[k]]
    /\ \A k \in DOMAIN ord : \E m \in DOMAIN ord : ord[m] = k
    /\ ~shuffle => \A k \in DOMAIN ord : ord[k] = k
    /\ calls # <<>> =>
         LET c == LastCall
             done == {q \in UpdateCalls : calls[q].i = c.i}
         IN
         /\ c.op # "predict_batch" =>
               /\ c.x = xs0[c.orig]
               /\ c.y = ys0[c.orig]
               /\ ~shuffle => c.orig = c.j
         /\ \A q, r \in done : calls[q].orig = calls[r].orig => q = r
         /\ (c.op = "predict_batch" /\ Len(calls) > 1) =>
               {calls[q].orig : q \in done} = Range0(NSamples)
C5_Witness ==
    /\ pc = "done" /\ shuffle /\ epochs >= 2 /\ NSamples >= 2
    /\ \E k \in DOMAIN ord : ord[k] # k
    /\ calls[2].orig # 0                        \* the first epoch did not start with sample 0

(* C6: with eta = 0 the nudge target is the free-phase prediction, the       *)
(* clamped state equals the free state and every delta is zero; with eta = 1 *)
(* the nudge target is the sample's y.                                       *)
C6_EtaBoundary ==
    /\ (eta = 0 /\ pc \in {"clamped", "update"}) => nudges = free[2] - free[0]
    /\ (eta = 0 /\ pc = "update") => clamped = free
    /\ (eta = 0 /\ calls # <<>>) => IsZero(LastCall.delta)
    /\ (eta = EtaDen /\ pc \in {"clamped", "update"}) => nudges = ys[j]
C6_Witness ==
    /\ pc = "update" /\ gamma > 0
    /\ \/ eta = 0 /\ ys[j] # free[2] - free[0]
       \/ eta = EtaDen /\ ys[j] # free[2] - free[0] /\ i >= 1

(* C7: a failing solve or predict ends train: no call on the network follows *)
(* a failed one, the call does not return a result, and nothing more happens. *)
C7_AbortOnFailure ==
    /\ Len(calls) > 1 => PrevCall(1).ok
    /\ (calls # <<>> /\ ~LastCall.ok) => (pc = "aborted" /\ ret = <<>> /\ ~ENABLED Next)
    /\ pc = "done" => (calls # <<>> /\ LastCall.ok)
C7_Witness ==
    /\ pc = "aborted" /\ ~LastCall.ok
    /\ LastCall.op = "solve_clamped" /\ LastCall.i >= 1
    /\ Converges(w)

(* C8: once allocated the buffers keep their shapes: loss has epochs+1       *)
(* entries, weights is (C+1, n, n_edges), updates is (C, n, n_edges), C the  *)
(* number of checkpoints (epochs when none are given); train returns         *)
(* (net, loss, updates, weights).                                            *)
C8_HistoryShapes ==
    /\ pc # "start" =>
         /\ DOMAIN loss = Range0(epochs + 1)
         /\ DOMAIN weights = Range0(NCheckpoints + 1)
         /\ DOMAIN updates = Range0(NCheckpoints)
         /\ \A k \in DOMAIN weights :
               /\ DOMAIN weights[k] = Range0(NSamples)
               /\ \A s \in DOMAIN weights[k] : DOMAIN weights[k][s] = Range0(n_edges)
         /\ \A k \in DOMAIN updates :
               /\ DOMAIN updates[k] = Range0(NSamples)
               /\ \A s \in DOMAIN updates[k] : DOMAIN updates[k][s] = Range0(n_edges)
    /\ pc = "done" => ret = <<w, loss, updates, weights>>
C8_Witness ==
    /\ pc = "done" /\ epochs = 2 /\ NSamples = 2
    /\ log_steps0.given /\ NCheckpoints = 1

(* C9: for a checkpoint list of epoch numbers of [0, epochs), on return      *)
(* every cell of updates and of weights has been stored into exactly once;   *)
(* updates[k][j] is the delta of sample j of epoch log_steps[k],             *)
(* weights[k+1][j] the edge values right after it, weights[0][j] the initial *)
(* edge values.                                                              *)
C9_WriteOnceComplete ==
    (pc = "done" /\ ~ConfigurationError) =>
      /\ \A k \in DOMAIN updates : \A s \in Range0(NSamples) :
            /\ updWrites[k][s] = 1
            /\ \E q \in UpdateCalls :
                  /\ calls[q].i = log_steps[k] /\ calls[q].j = s
                  /\ updates[k][s] = StoredRow(calls[q].delta)
                  /\ weights[k + 1][s] = StoredRow(calls[q].w)
      /\ \A k \in DOMAIN weights : \A s \in Range0(NSamples) : wgtWrites[k][s] = 1
      /\ \A s \in Range0(NSamples) : weights[0][s] = StoredRow(w0)

\* the same for the checkpoint lists that name no epoch twice, sorted or not
NoRepeatedCheckpoint ==
    \A a, b \in DOMAIN log_steps : log_steps[a] = log_steps[b] => a = b
C9_WriteOnceWithoutRepeats ==
    (pc = "done" /\ ~ConfigurationError /\ NoRepeatedCheckpoint) =>
      /\ \A k \in DOMAIN updates : \A s \in Range0(NSamples) :
            /\ updWrites[k][s] = 1
            /\ \E q \in UpdateCalls :
                  /\ calls[q].i = log_steps[k] /\ calls[q].j = s
                  /\ updates[k][s] = StoredRow(calls[q].delta)
                  /\ weights[k + 1][s] = StoredRow(calls[q].w)
      /\ \A k \in DOMAIN weights : \A s \in Range0(NSamples) : wgtWrites[k][s] = 1
      /\ \A s \in Range0(NSamples) : weights[0][s] = StoredRow(w0)
\* a run that returns with an unsorted list of two checkpoints
C9_UnsortedReturned ==
    /\ pc = "done" /\ ~ConfigurationError /\ NoRepeatedCheckpoint
    /\ Len0(log_steps) = 2 /\ log_steps[0] > log_steps[1] /\ w # w0

(* C10: every epoch stores its loss, checkpoint or not.  Each slot of loss   *)
(* is stored into at most once, slot 0 from the edge values of the call,     *)
(* slot i+1 right after the last update of epoch i and from the edge values  *)
(* it left, with no update in between and before the next epoch's first      *)
(* solve; a report is printed for the checkpoint epochs only.                *)
C10_LossEveryEpoch ==
    /\ \A k \in DOMAIN lossWrites :
          /\ lossWrites[k] <= 1
          /\ lossWrites[k] = 1 <=> (calls # <<>> /\ calls[1].ok /\ k <= i)
    /\ (calls # <<>> /\ calls[1].ok) =>
          /\ calls[1].op = "predict_batch" /\ calls[1].w = w0
          /\ loss[0] = MSE(ys0, PredictBatch(xs0, w0))
    /\ (Len(calls) > 1 /\ LastCall.op = "predict_batch") =>
          /\ PrevCall(1).op = "update"
          /\ PrevCall(1).i = LastCall.i /\ PrevCall(1).j = NSamples - 1
          /\ LastCall.w = PrevCall(1).w /\ w = LastCall.w
          /\ LastCall.ok =>
                /\ i = LastCall.i + 1 /\ pc \in {"epoch", "free", "done"}
                /\ loss[i] = MSE(ys, PredictBatch(xs, PrevCall(1).w))
    /\ (calls # <<>> /\ LastCall.op = "update" /\ LastCall.j = NSamples - 1) => pc = "loss"
    /\ (calls # <<>> /\ LastCall.op = "solve_free" /\ LastCall.j = 0) =>
          /\ PrevCall(1).op = "predict_batch" /\ PrevCall(1).ok
          /\ LastCall.i > 0 => PrevCall(1).i = LastCall.i - 1
    /\ pc # "start" =>
          /\ \A e \in 1 .. epochs : InSeq(printed, e) <=> (e <= i /\ Contains(log_steps, e - 1))
          /\ \A a, b \in 1 .. Len(printed) : printed[a] = printed[b] => a = b
C10_Witness ==
    /\ pc = "done" /\ epochs = 2 /\ gamma > 0
    /\ log_steps0.given /\ Len0(log_steps) = 1 /\ log_steps[0] = 1
    /\ printed = <<2>>
    /\ \A k \in DOMAIN lossWrites : lossWrites[k] = 1
    /\ w # w0

====
